---- MODULE Spec2Model ----
(***************************************************************************)
(* A model of supabase/functions/unshuf/index.ts: the seeded inverse       *)
(* permutation (unShuffle), the tile partitioning and reassembly           *)
(* (imgReverser) and the request handler (Deno.serve).                      *)
(*                                                                         *)
(* Numbers are integers.  A PRNG draw r in [0,1) is the rational k / Den   *)
(* with k in 0..Den-1, so Math.floor(r * n) is Floor(k * n, Den).          *)
(***************************************************************************)
EXTENDS Integers, Sequences, FiniteSets, TLC

\* ------------------------------------------------------------------ bounds

\* Longest array handed to unShuffle in the unShuffle specification.
MaxLen == 3
\* Calls of unShuffle in one behaviour of the unShuffle specification.
MaxCalls == 3
\* Largest image width and height, in pixels.
MaxDim == 5
\* Largest tile side length (negative sides go down to -MaxSide).
MaxSide == 2
\* Largest tile group of an image.
MaxGroup == 4
\* Resolution of a PRNG draw: r is one of 0/Den .. (Den-1)/Den.
Den == 4

\* The seed (a string in the code): 'stay' is the default of line 121 and
\* the one the handler passes at line 196.
Seeds == {"stay"}

\* ------------------------------------------------------- JavaScript numbers

\* Math.floor(a / b) for integers a and b # 0.
Floor(a, b) ==
    IF b > 0 THEN a \div b ELSE (-a) \div (-b)

\* Math.ceil(a / b) for integers a and b # 0.
Ceil(a, b) ==
    -Floor(-a, b)

\* Math.max
Max(a, b) ==
    IF a >= b THEN a ELSE b

\* null, as pushed into shuffledArray at line 108 (array elements are >= 0).
Null == -1

\* ------------------------------------------------------ toNumber, createRange

\* toNumber, lines 22-25: every input the program passes is of type number
\* (a length), for which the input is returned as it is.
toNumber(input) ==
    input

\* baseRange, lines 56-70: length = max(ceil((end - start) / (step || 1)), 0)
\* elements start, start + step, ... (fromRight fills from the other end).
baseRange(start, end, step, fromRight) ==
    LET length == Max(Ceil(end - start, IF step = 0 THEN 1 ELSE step), 0)
    IN  [index \in 1..length |->
            IF fromRight THEN start + (length - index) * step
                         ELSE start + (index - 1) * step]

\* createRange(start, end), lines 44-54, called with two arguments.
createRange(start, end) ==
    LET s == IF start # 0 THEN toNumber(start) ELSE 0
        e == toNumber(end)
        step == IF s < e THEN 1 ELSE -1
    IN  baseRange(s, e, step, FALSE)

\* ------------------------------------------------------------- unShuffle

\* Splice with the removal lost (a draw with replacement).
SpliceKeeps(arr, index) ==
    arr

\* Array.prototype.splice(index, 1) on a 0-based index: the array without
\* that element.
Splice(arr, index) ==
    [k \in 1..(Len(arr) - 1) |-> IF k <= index THEN arr[k] ELSE arr[k + 1]]

\* Lines 105-110: shuffledArray is arrayLength nulls, indexArray is 0..n-1.
unShuffleInit(arr) ==
    [shuffledArray |-> [k \in 1..Len(arr) |-> Null],
     indexArray    |-> [k \in 1..Len(arr) |-> k - 1]]

\* RandomIndex scaled by length - 1 (the "+ 1" of the range lost).
RandomIndexShort(k, idx) ==
    Floor(k * (Len(idx) - 1 - 0), Den) + 0

\* Line 112-113: Math.floor(randomGenerator() * (indexArray.length-1-0+1)) + 0
\* for the draw r = k / Den.
RandomIndex(k, idx) ==
    Floor(k * (Len(idx) - 1 - 0 + 1), Den) + 0

\* Lines 112-116, one iteration of the second loop: the draw k picks
\* randomIndex, index = indexArray[randomIndex] is spliced out and
\* shuffledArray[index] = array[i].
unShuffleBody(st, arr, ii, k) ==
    LET randomIndex == RandomIndex(k, st.indexArray)
        index == st.indexArray[randomIndex + 1]
    IN  [shuffledArray |-> [st.shuffledArray EXCEPT ![index + 1] = arr[ii + 1]],
         indexArray    |-> Splice(st.indexArray, randomIndex)]

RECURSIVE unShuffleLoop(_, _, _, _)
\* Lines 111-117 from iteration ii on, the generator's draws being rnd.
unShuffleLoop(st, arr, ii, rnd) ==
    IF ii < Len(arr)
    THEN unShuffleLoop(unShuffleBody(st, arr, ii, rnd[ii + 1]), arr, ii + 1, rnd)
    ELSE st.shuffledArray

\* unShuffle(array, seed), lines 98-119, for an array (Array.isArray holds),
\* rnd being the stream of seedrandom(seed).
unShuffle(arr, rnd) ==
    unShuffleLoop(unShuffleInit(arr), arr, 0, rnd)

\* ------------------------------------------------- getGroup, getColsInGroup

\* getColsInGroup counting the first tile of the next row too.
getColsInGroupLate(grp) ==
    IF Len(grp) = 1 THEN 1
    ELSE LET differ == {k \in 0..(Len(grp) - 1) : grp[k + 1].y # grp[1].y}
         IN  IF differ = {} THEN Len(grp)
             ELSE (CHOOSE k \in differ : \A m \in differ : k <= m) + 1

\* getColsInGroup, lines 84-96: 1 for a single tile, else the index of the
\* first tile whose y differs from the first tile's, else the length.
getColsInGroup(grp) ==
    IF Len(grp) = 1 THEN 1
    ELSE LET differ == {k \in 0..(Len(grp) - 1) : grp[k + 1].y # grp[1].y}
         IN  IF differ = {} THEN Len(grp)
             ELSE CHOOSE k \in differ : \A m \in differ : k <= m

\* The quotient a / b of JavaScript numbers, as a fraction in lowest terms.
RECURSIVE Gcd(_, _)
Gcd(a, b) ==
    IF b = 0 THEN a ELSE Gcd(b, a % b)

Quotient(a, b) ==
    [num |-> a \div Gcd(a, b), den |-> b \div Gcd(a, b)]

\* getGroup, lines 72-82.
getGroup(grp) ==
    [slices |-> Len(grp),
     cols   |-> getColsInGroup(grp),
     rows   |-> Quotient(Len(grp), getColsInGroup(grp)),
     x      |-> grp[1].x,
     y      |-> grp[1].y]

\* ------------------------------------------------- imgReverser: partitioning

\* Line 127.
TotalSquares(W, H, T) ==
    Ceil(W, T) * Ceil(H, T)

\* Line 128.
SquaresPerRow(W, T) ==
    Ceil(W, T)

\* Square without the clipping at the right and bottom edges.
SquareUnclipped(k, W, H, T) ==
    LET row == Floor(k, SquaresPerRow(W, T))
    IN  [x |-> (k - row * SquaresPerRow(W, T)) * T,
         y |-> row * T,
         width  |-> T,
         height |-> T]

\* Lines 131-137: the square of loop index k.
Square(k, W, H, T) ==
    LET row == Floor(k, SquaresPerRow(W, T))
        x == (k - row * SquaresPerRow(W, T)) * T
        y == row * T
    IN  [x |-> x,
         y |-> y,
         width  |-> T - (IF x + T <= W THEN 0 ELSE x + T - W),
         height |-> T - (IF y + T <= H THEN 0 ELSE y + T - H)]

\* Lines 130-137: the squares in the order the loop builds them.
Squares(W, H, T) ==
    [k \in 1..Max(TotalSquares(W, H, T), 0) |-> Square(k - 1, W, H, T)]

\* Line 138: the key width + '-' + height, modelled by the pair
\* <<width, height>> (the string determines both integers).
Key(sq) ==
    <<sq.width, sq.height>>

\* Lines 138-140: the keys in the order of their creation, each at the first
\* square that has it.
GroupKeys(all) ==
    LET firsts == {k \in 1..Len(all) :
                      \A j \in 1..(k - 1) : Key(all[j]) # Key(all[k])}
    IN  [m \in 1..Cardinality(firsts) |->
            Key(all[CHOOSE k \in firsts :
                       Cardinality({j \in firsts : j < k}) = m - 1])]

\* Line 141: every square is pushed to the group of its key.
GroupsOfKeys(all, keys) ==
    [m \in 1..Len(keys) |->
        [key |-> keys[m],
         squares |-> SelectSeq(all, LAMBDA sq : Key(sq) = keys[m])]]

\* Lines 138-141 for the squares all.
GroupSquares(all) ==
    GroupsOfKeys(all, GroupKeys(all))

\* Lines 127-142: squareGroups after the partitioning loop.  Keys keep their
\* insertion order, the order in which the for-in loop of line 143 visits
\* them (no key is an array index).
SquareGroups(W, H, T) ==
    GroupSquares(Squares(W, H, T))

\* ---------------------------------------------------- imgReverser: the copies

\* The pixels of a width x height image or canvas.
Pixels(W, H) ==
    (0..(W - 1)) \X (0..(H - 1))

\* A canvas pixel nothing was drawn on (createCanvas, line 125).
Blank == <<>>

\* The pixel offsets a side length w spans from its origin (a negative
\* length spans the pixels before it: the rectangle is normalised).
Offsets(w) ==
    IF w >= 0 THEN 0..(w - 1) ELSE w..(-1)

\* Written with the rectangle one pixel column wider than the tile.
WrittenSpill(image, sx, sy, sw, sh, dx, dy) ==
    {<<dx + a, dy + b>> : <<a, b>> \in
        {o \in (Offsets(sw) \cup {sw}) \X Offsets(sh) :
            /\ 0 <= dx + o[1] /\ dx + o[1] < image.width
            /\ 0 <= dy + o[2] /\ dy + o[2] < image.height
            /\ 0 <= sx + o[1] /\ sx + o[1] < image.width
            /\ 0 <= sy + o[2] /\ sy + o[2] < image.height}}

\* The canvas pixels a drawImage call with source origin (sx, sy), size
\* sw x sh and destination origin (dx, dy) writes: destination pixel
\* (dx+a, dy+b) for every offset (a, b) of the rectangle, unless it lies
\* outside the canvas or its source pixel (sx+a, sy+b) outside the image
\* (the call is clipped).
Written(image, sx, sy, sw, sh, dx, dy) ==
    {<<dx + a, dy + b>> : <<a, b>> \in
        {o \in Offsets(sw) \X Offsets(sh) :
            /\ 0 <= dx + o[1] /\ dx + o[1] < image.width
            /\ 0 <= dy + o[2] /\ dy + o[2] < image.height
            /\ 0 <= sx + o[1] /\ sx + o[1] < image.width
            /\ 0 <= sy + o[2] /\ sy + o[2] < image.height}}

\* context.drawImage(image, sx, sy, sw, sh, dx, dy, dw, dh) with dw = sw and
\* dh = sh (lines 151-160, no scaling) on a canvas of the image's size
\* (line 125): every written pixel (dx+a, dy+b) takes the image's pixel
\* (sx+a, sy+b).
drawImage(cv, image, sx, sy, sw, sh, dx, dy) ==
    LET written == Written(image, sx, sy, sw, sh, dx, dy)
    IN  [p \in DOMAIN cv |->
            IF p \in written
            THEN image.data[<<sx + (p[1] - dx), sy + (p[2] - dy)>>]
            ELSE cv[p]]

\* SourceX stepping by the tile's height.
SourceXByHeight(grp, sq, slot) ==
    LET deltaY == Floor(slot, grp.cols)
    IN  grp.x + (slot - deltaY * grp.cols) * sq.height

\* Lines 147-149, 153: the x of the source rectangle of a tile whose
\* deshuffled entry is slot: group.x + deltaX.
SourceX(grp, sq, slot) ==
    LET deltaY == Floor(slot, grp.cols)
    IN  grp.x + (slot - deltaY * grp.cols) * sq.width

\* SourceY stepping by the tile's width.
SourceYByWidth(grp, sq, slot) ==
    LET deltaY == Floor(slot, grp.cols)
    IN  grp.y + deltaY * sq.width

\* Lines 147-150, 154: the y of that source rectangle: group.y + deltaY.
SourceY(grp, sq, slot) ==
    LET deltaY == Floor(slot, grp.cols)
    IN  grp.y + deltaY * sq.height

\* Lines 146-161 for one tile: the drawImage call of group squares, index idx.
CopyTile(cv, image, squares, deshuf, idx) ==
    LET sq == squares[idx + 1]
        grp == getGroup(squares)
        slot == deshuf[idx + 1]
    IN  drawImage(cv, image, SourceX(grp, sq, slot), SourceY(grp, sq, slot),
                  sq.width, sq.height, sq.x, sq.y)

RECURSIVE CopyGroup(_, _, _, _, _)
\* Lines 146-161: the tiles of one group from index idx on, in order.
CopyGroup(cv, image, squares, deshuf, idx) ==
    IF idx < Len(squares)
    THEN CopyGroup(CopyTile(cv, image, squares, deshuf, idx), image, squares,
                   deshuf, idx + 1)
    ELSE cv

RECURSIVE CopyGroups(_, _, _, _, _)
\* Lines 143-162: the groups from number gi (1-based) on, in key order.
CopyGroups(cv, image, groups, rnd, gi) ==
    IF gi <= Len(groups)
    THEN CopyGroups(
             CopyGroup(cv, image, groups[gi].squares,
                       unShuffle(createRange(0, Len(groups[gi].squares)), rnd), 0),
             image, groups, rnd, gi + 1)
    ELSE cv

\* imgReverser, lines 121-164: the canvas handed to toBuffer for the image
\* [width, height, data], rnd being the stream of seedrandom(stringSeed).
imgReverser(image, T, rnd) ==
    CopyGroups([p \in Pixels(image.width, image.height) |-> Blank], image,
               SquareGroups(image.width, image.height, T), rnd, 1)

\* --------------------------------------------------------------- the state

VARIABLES
    stream,           \* seedrandom's stream of each seed, as far as it was drawn
    upc,              \* unShuffle: "idle", "loop", "done"
    array,            \* unShuffle's argument
    seed,             \* unShuffle's seed
    randomGenerator,  \* the generator of line 104: [seed, pos]
    loop,             \* [shuffledArray, indexArray] of the running call
    i,                \* the second loop's counter
    first,            \* the first finished call: <<[n, seed, result]>>, or <<>>
    ncalls,           \* the calls entered so far
    others,           \* the calls finished since with another (n, seed)
    pc,               \* imgReverser: "off", "start", "loaded", "copy", "returned"
    img,              \* what is at imageSrcUrl: [ok, width, height, data]
    squareSideLength, \* imgReverser's second argument
    stringSeed,       \* imgReverser's third argument
    canvas,           \* the target surface: pixel -> content
    squareGroups,     \* the groups, in key order: [key, squares]
    deshuffled,       \* group number -> unShuffle's result, once computed
    done,             \* the drawImage calls made: <<group number, index>>
    writes,           \* pixel -> the number of drawImage calls that wrote it
    png,              \* what imgReverser returned: <<canvas>>, or <<>>
    reordered,        \* whether a drawImage call was made out of the loops' order
    req,              \* the request: [method, json, type, imgURL]
    hpc,              \* the handler: "off", "request", "json", "reversing",
                      \* "threw", "responded"
    resp              \* the response: <<[status, contentType, body]>>, or <<>>

hvars == <<req, hpc, resp>>
uvars == <<upc, array, seed, randomGenerator, loop, i, first, ncalls, others>>
ivars == <<pc, img, squareSideLength, stringSeed, canvas, squareGroups,
           deshuffled, done, writes, png, reordered>>
vars == <<stream, uvars, ivars, hvars>>

\* seedrandom with one generator per seed kept between the calls.
seedrandomShared(s) ==
    IF randomGenerator.seed = s THEN randomGenerator ELSE [seed |-> s, pos |-> 0]

\* seedrandom(seed), line 104: a generator of its own at the stream's start.
seedrandom(s) ==
    [seed |-> s, pos |-> 0]

\* -------------------------------------------------- unShuffle, step by step

\* No call of unShuffle is running.
IdleU ==
    /\ upc = "idle"
    /\ array = <<>>
    /\ seed = "stay"
    /\ randomGenerator = [seed |-> "stay", pos |-> 0]
    /\ loop = unShuffleInit(<<>>)
    /\ i = 0
    /\ first = <<>>
    /\ ncalls = 0
    /\ others = 0

\* No call of imgReverser is running.
IdleI ==
    /\ pc = "off"
    /\ img = [ok |-> FALSE, width |-> 0, height |-> 0, data |-> <<>>]
    /\ squareSideLength = 200
    /\ stringSeed = "stay"
    /\ canvas = <<>>
    /\ squareGroups = <<>>
    /\ deshuffled = <<>>
    /\ done = {}
    /\ writes = <<>>
    /\ png = <<>>
    /\ reordered = FALSE

\* No request is being handled.
IdleH ==
    /\ req = [method |-> "POST", json |-> FALSE, type |-> "text",
              imgURL |-> "absent"]
    /\ hpc = "off"
    /\ resp = <<>>

InitU ==
    /\ stream = [s \in Seeds |-> <<>>]
    /\ IdleU
    /\ IdleI
    /\ IdleH

\* Lines 98-110: unShuffle(createRange(0, n), s) is entered.
UnShuffleCall(n, s) ==
    /\ upc = "idle"
    /\ ncalls < MaxCalls
    /\ array' = createRange(0, n)
    /\ seed' = s
    /\ randomGenerator' = seedrandom(s)
    /\ loop' = unShuffleInit(createRange(0, n))
    /\ i' = 0
    /\ upc' = "loop"
    /\ ncalls' = ncalls + 1
    /\ UNCHANGED <<stream, first, others, ivars, hvars>>

\* randomGenerator(): the next value of the generator's stream.  A value the
\* stream showed before is the same again; a new one is any k in 0..Den-1.
UnShuffleIter ==
    /\ upc = "loop"
    /\ i < Len(array)
    /\ LET g == randomGenerator
           known == stream[g.seed]
       IN  \E k \in 0..(Den - 1) :
              /\ g.pos < Len(known) => k = known[g.pos + 1]
              /\ stream' = IF g.pos < Len(known) THEN stream
                           ELSE [stream EXCEPT ![g.seed] = Append(known, k)]
              /\ randomGenerator' = [g EXCEPT !.pos = g.pos + 1]
              /\ loop' = unShuffleBody(loop, array, i, k)
    /\ i' = i + 1
    /\ UNCHANGED <<upc, array, seed, first, ncalls, others, ivars, hvars>>

\* Line 118: return shuffledArray.
UnShuffleReturn ==
    /\ upc = "loop"
    /\ i >= Len(array)
    /\ upc' = "done"
    /\ first' = IF first = <<>>
                THEN <<[n |-> Len(array), seed |-> seed,
                        result |-> loop.shuffledArray]>>
                ELSE first
    /\ others' = IF first # <<>> /\ <<first[1].n, first[1].seed>> # <<Len(array), seed>>
                 THEN others + 1 ELSE others
    /\ UNCHANGED <<stream, array, seed, randomGenerator, loop, i, ncalls, ivars, hvars>>

\* The caller has the result; the call's locals (array, shuffledArray,
\* indexArray, i) are gone.  The generator object is left as it was.
UnShuffleNext ==
    /\ upc = "done"
    /\ upc' = "idle"
    /\ array' = <<>>
    /\ loop' = unShuffleInit(<<>>)
    /\ i' = 0
    /\ UNCHANGED <<stream, seed, randomGenerator, first, ncalls, others, ivars, hvars>>

NextU ==
    \/ \E n \in 0..MaxLen, s \in Seeds : UnShuffleCall(n, s)
    \/ UnShuffleIter
    \/ UnShuffleReturn
    \/ UnShuffleNext

SpecU == InitU /\ [][NextU]_vars

\* ------------------------------------------------ imgReverser, step by step

\* The tile side lengths tried.  A side of 0 is left out: it makes
\* Math.ceil(width / 0) Infinity and the tile origins NaN, which are no
\* integers.
Sides ==
    {t \in (-MaxSide)..MaxSide : t # 0} \cup {200}

\* The unscrambled image: the content of pixel p is p itself, so that every
\* pixel's content is distinct.
Original(W, H) ==
    [p \in Pixels(W, H) |-> p]

\* The draws of the stream an image was scrambled with: the least, a middle
\* and the greatest value.
ImageDraws ==
    {0, Den \div 2, Den - 1}

\* The largest group of an image.
LargestGroup(groups) ==
    LET sizes == {Len(groups[k].squares) : k \in 1..Len(groups)}
    IN  IF sizes = {} THEN 0 ELSE CHOOSE n \in sizes : \A m \in sizes : m <= n

\* Whether pixel p lies in the rectangle of square sq (of positive sides).
InSquare(p, sq) ==
    /\ sq.x <= p[1] /\ p[1] < sq.x + sq.width
    /\ sq.y <= p[2] /\ p[2] < sq.y + sq.height

\* The content of pixel p of square sqe when sqe holds the content of
\* square sqd (p itself where sqd has no such pixel).
PixelFrom(original, sqe, sqd, p) ==
    LET q == <<sqd.x + (p[1] - sqe.x), sqd.y + (p[2] - sqe.y)>>
    IN  IF q \in DOMAIN original THEN original[q] ELSE original[p]

\* Pixel p of the square at place e (1-based) of a group scrambled with perm:
\* the content of the group's slot d with perm[d] = e - 1.
ScrambledSlot(original, squares, perm, e, p) ==
    PixelFrom(original, squares[e],
              squares[CHOOSE d \in 1..Len(perm) : perm[d] = e - 1], p)

\* Pixel p of the scrambled image, perms holding each group's permutation.
ScrambledPixel(original, groups, perms, p) ==
    LET at == CHOOSE t \in UNION {{<<g, e>> : e \in 1..Len(groups[g].squares)} :
                                     g \in 1..Len(groups)} :
                  InSquare(p, groups[t[1]].squares[t[2]])
    IN  ScrambledSlot(original, groups[at[1]].squares, perms[at[1]], at[2], p)

\* The groups scrambled with their permutations.
ScrambleGroups(original, groups, perms) ==
    [p \in DOMAIN original |-> ScrambledPixel(original, groups, perms, p)]

\* Each group's draw-and-remove permutation under the stream rnd.
GroupPermutations(groups, rnd) ==
    [g \in 1..Len(groups) |->
        unShuffle(createRange(0, Len(groups[g].squares)), rnd)]

\* The groups of the forward scramble with their permutations.
ScrambleWith(original, groups, rnd) ==
    ScrambleGroups(original, groups, GroupPermutations(groups, rnd))

\* The forward scramble: per tile group, with perm the draw-and-remove
\* permutation of the group's size under the same stream, the original
\* content of group slot d lies at group slot perm[d] of the scrambled image.
Scramble(original, W, H, T, rnd) ==
    ScrambleWith(original, SquareGroups(W, H, T), rnd)

\* The W x H images scrambled with tile side T and a stream, with the stream:
\* [img, rnd] (an image as it is for a side length below 0, which no
\* scramble produces).  Images whose largest group exceeds MaxGroup are left
\* out.
ScrambledImages(W, H, T) ==
    LET n == LargestGroup(SquareGroups(W, H, T))
    IN  IF n > MaxGroup THEN {}
        ELSE {[rnd |-> rnd,
               img |-> [ok |-> TRUE, width |-> W, height |-> H,
                        data |-> IF T > 0
                                 THEN Scramble(Original(W, H), W, H, T, rnd)
                                 ELSE Original(W, H)]] :
                 rnd \in [1..n -> ImageDraws]}

\* imgReverser's locals before line 122.
EnterI ==
    /\ canvas = <<>>
    /\ squareGroups = <<>>
    /\ deshuffled = <<>>
    /\ done = {}
    /\ writes = <<>>
    /\ png = <<>>
    /\ reordered = FALSE

\* imgReverser(imageSrcUrl, squareSideLength, stringSeed) is entered, for any
\* image of at most MaxDim x MaxDim pixels and any side length of Sides.
Init ==
    /\ IdleU
    /\ IdleH
    /\ pc = "start"
    /\ stringSeed = "stay"
    /\ \E W \in 1..MaxDim, H \in 1..MaxDim, T \in Sides :
          \E si \in ScrambledImages(W, H, T) :
             /\ squareSideLength = T
             /\ stream = [s \in Seeds |-> si.rnd]
             /\ img = si.img
    /\ EnterI

\* Lines 122-126: loadImage, createCanvas, getContext.
LoadImage ==
    /\ pc = "start"
    /\ img.ok
    /\ pc' = "loaded"
    /\ canvas' = [p \in Pixels(img.width, img.height) |-> Blank]
    /\ writes' = [p \in Pixels(img.width, img.height) |-> 0]
    /\ UNCHANGED <<stream, uvars, img, squareSideLength, stringSeed,
                   squareGroups, deshuffled, done, png, reordered, hvars>>

\* Lines 127-142: the partitioning loop.
Partition ==
    /\ pc = "loaded"
    /\ pc' = "copy"
    /\ squareGroups' = SquareGroups(img.width, img.height, squareSideLength)
    /\ UNCHANGED <<stream, uvars, img, squareSideLength, stringSeed, canvas,
                   deshuffled, done, writes, png, reordered, hvars>>

\* The order of the loops of lines 143 and 146: group gi is next when the
\* groups before it are started and their tiles are all copied.
NextGroup(gi) ==
    /\ gi = Len(deshuffled) + 1
    /\ \A g \in 1..Len(deshuffled) :
          \A idx \in 0..(Len(squareGroups[g].squares) - 1) : <<g, idx>> \in done

\* Tile idx of group gi is next when gi is the running group, the groups
\* before it are done and so are the tiles before idx.
NextTile(gi, idx) ==
    /\ gi = Len(deshuffled)
    /\ \A g \in 1..(gi - 1) :
          \A k \in 0..(Len(squareGroups[g].squares) - 1) : <<g, k>> \in done
    /\ idx = Cardinality({d \in done : d[1] = gi})

\* Lines 144-145 for group gi: unShuffle(createRange(0, length), stringSeed).
StartGroup(gi) ==
    /\ pc = "copy"
    /\ gi \in 1..Len(squareGroups)
    /\ gi = Len(deshuffled) + 1
    /\ deshuffled' = Append(deshuffled,
                            unShuffle(createRange(0, Len(squareGroups[gi].squares)),
                                      stream[stringSeed]))
    /\ UNCHANGED <<stream, uvars, pc, img, squareSideLength, stringSeed, canvas,
                   squareGroups, done, writes, png, reordered, hvars>>

\* Lines 147-160 for the tile at index idx of group gi: one drawImage call.
DrawTile(gi, idx) ==
    /\ pc = "copy"
    /\ gi \in 1..Len(deshuffled)
    /\ idx \in 0..(Len(squareGroups[gi].squares) - 1)
    /\ <<gi, idx>> \notin done
    /\ LET squares == squareGroups[gi].squares
           sq == squares[idx + 1]
           grp == getGroup(squares)
           slot == deshuffled[gi][idx + 1]
           written == Written(img, SourceX(grp, sq, slot),
                              SourceY(grp, sq, slot), sq.width, sq.height,
                              sq.x, sq.y)
       IN  /\ canvas' = CopyTile(canvas, img, squares, deshuffled[gi], idx)
           /\ writes' = [p \in DOMAIN writes |->
                            IF p \in written THEN writes[p] + 1 ELSE writes[p]]
    /\ done' = done \cup {<<gi, idx>>}
    /\ reordered' = (reordered \/ ~NextTile(gi, idx))
    /\ UNCHANGED <<stream, uvars, pc, img, squareSideLength, stringSeed,
                   squareGroups, deshuffled, png, hvars>>

\* Line 163: every group is done; the canvas is returned as a PNG.
Return ==
    /\ pc = "copy"
    /\ Len(deshuffled) = Len(squareGroups)
    /\ \A g \in 1..Len(squareGroups) :
          \A idx \in 0..(Len(squareGroups[g].squares) - 1) : <<g, idx>> \in done
    /\ pc' = "returned"
    /\ png' = <<canvas>>
    /\ UNCHANGED <<stream, uvars, img, squareSideLength, stringSeed, canvas,
                   squareGroups, deshuffled, done, writes, reordered, hvars>>

\* imgReverser as the code runs it: groups in key order, tiles in index order.
Next ==
    \/ LoadImage
    \/ Partition
    \/ \E gi \in 1..(MaxDim * MaxDim) : NextGroup(gi) /\ StartGroup(gi)
    \/ \E gi \in 1..(MaxDim * MaxDim), idx \in 0..(MaxGroup - 1) :
          NextTile(gi, idx) /\ DrawTile(gi, idx)
    \/ Return

Spec == Init /\ [][Next]_vars

\* ---------------------------------------- the copies in any order (tasks)

\* Most tiles of an image whose copies are run in any order.
MaxParSquares == 4

\* As Init, for the images of at most MaxParSquares tiles.
InitPar ==
    /\ Init
    /\ TotalSquares(img.width, img.height, squareSideLength) <= MaxParSquares

\* The work of lines 143-162 as independent units: a group's unShuffle once
\* the groups before it have theirs (the for-in order of the keys), and the
\* started groups' drawImage calls in any order.
NextPar ==
    \/ LoadImage
    \/ Partition
    \/ \E gi \in 1..MaxParSquares : StartGroup(gi)
    \/ \E gi \in 1..MaxParSquares, idx \in 0..(MaxGroup - 1) : DrawTile(gi, idx)
    \/ Return

SpecPar == InitPar /\ [][NextPar]_vars

\* ------------------------------------------------------ the request handler

Methods == {"POST", "GET", "PUT"}

\* What body.imgURL holds for a JSON object body: no such field, a falsy value
\* (null, false, 0, ""), a URL string, a number other than 0, or an object
\* whose own toString is not a function.
FieldValues ==
    {"absent", "null", "false", "zero", "empty", "url", "number", "noToString"}

\* The request bodies: text that is no JSON, and the JSON values null, a
\* number, a string, an array and an object.
Requests ==
    {[method |-> m, json |-> FALSE, type |-> "text", imgURL |-> "absent"] :
        m \in Methods}
    \cup {[method |-> m, json |-> TRUE, type |-> t, imgURL |-> "absent"] :
             m \in Methods, t \in {"null", "number", "string", "array"}}
    \cup {[method |-> m, json |-> TRUE, type |-> "object", imgURL |-> u] :
             m \in Methods, u \in FieldValues}

\* !imgURL, line 187.
Falsy(u) ==
    u \in {"absent", "null", "false", "zero", "empty"}

\* A request arrives; what loadImage finds at the locator is an image of at
\* most 2 x 2 pixels scrambled with the handler's side length and seed, or
\* nothing it can decode (always so for a locator that is no string).
InitH ==
    /\ IdleU
    /\ pc = "off"
    /\ squareSideLength = 200
    /\ stringSeed = "stay"
    /\ EnterI
    /\ hpc = "request"
    /\ resp = <<>>
    /\ req \in Requests
    /\ \E W \in 1..2, H \in 1..2 :
          \E si \in ScrambledImages(W, H, 200) :
             /\ stream = [s \in Seeds |-> si.rnd]
             /\ \/ img = si.img /\ req.imgURL \in {"url", "absent"}
                \/ img = [ok |-> FALSE, width |-> 0, height |-> 0, data |-> <<>>]

HUnchanged == UNCHANGED <<stream, uvars, ivars, req>>

\* Lines 168-173: a method other than POST.
RejectMethod ==
    /\ hpc = "request"
    /\ req.method # "POST"
    /\ hpc' = "responded"
    /\ resp' = <<[status |-> 400, contentType |-> "text/plain",
                  body |-> "Bad request: Only POST method is allowed"]>>
    /\ HUnchanged

\* Lines 175-177: await req.json() of a POST.
AwaitJson ==
    /\ hpc = "request"
    /\ req.method = "POST"
    /\ hpc' = "json"
    /\ resp' = resp
    /\ HUnchanged

\* Lines 178-183: req.json() threw.
RejectJson ==
    /\ hpc = "json"
    /\ ~req.json
    /\ hpc' = "responded"
    /\ resp' = <<[status |-> 400, contentType |-> "text/plain",
                  body |-> "Bad request: request body is not valid JSON"]>>
    /\ HUnchanged

\* Line 185: body.imgURL of the JSON value null throws a TypeError, which
\* nothing catches.
ThrowOnField ==
    /\ hpc = "json"
    /\ req.json
    /\ req.type = "null"
    /\ hpc' = "threw"
    /\ resp' = resp
    /\ HUnchanged

\* Lines 185-192: body.imgURL is undefined (no such field; a number, a string
\* and an array have none either) or another falsy value.
RejectMissing ==
    /\ hpc = "json"
    /\ req.json
    /\ req.type # "null"
    /\ Falsy(req.imgURL)
    /\ hpc' = "responded"
    /\ resp' = <<[status |-> 400, contentType |-> "text/plain",
                  body |-> "Bad request: missing imgURL in request body"]>>
    /\ HUnchanged

\* Line 194: imgURL.toString() of an object whose toString is no function
\* throws a TypeError.
ThrowOnLog ==
    /\ hpc = "json"
    /\ req.json
    /\ req.type # "null"
    /\ req.imgURL = "noToString"
    /\ hpc' = "threw"
    /\ resp' = resp
    /\ HUnchanged

\* Lines 194-196: imgReverser(imgURL, 200, 'stay') is entered.
CallImgReverser ==
    /\ hpc = "json"
    /\ req.json
    /\ req.type # "null"
    /\ ~Falsy(req.imgURL)
    /\ req.imgURL # "noToString"
    /\ hpc' = "reversing"
    /\ pc' = "start"
    /\ squareSideLength' = 200
    /\ stringSeed' = "stay"
    /\ UNCHANGED <<stream, uvars, img, canvas, squareGroups, deshuffled, done,
                   writes, png, reordered, req, resp>>

\* Line 122: loadImage rejects (the locator is unreachable or no image).
LoadImageThrows ==
    /\ hpc = "reversing"
    /\ pc = "start"
    /\ ~img.ok
    /\ pc' = "threw"
    /\ hpc' = "threw"
    /\ UNCHANGED <<stream, uvars, img, squareSideLength, stringSeed, canvas,
                   squareGroups, deshuffled, done, writes, png, reordered, req,
                   resp>>

\* Lines 198-201: the image bytes, with the content type image/png.
Respond ==
    /\ hpc = "reversing"
    /\ pc = "returned"
    /\ hpc' = "responded"
    /\ resp' = <<[status |-> 200, contentType |-> "image/png",
                  body |-> png[1]]>>
    /\ HUnchanged

\* The handler threw: Deno.serve answers with its default error response.
RespondError ==
    /\ hpc = "threw"
    /\ hpc' = "responded"
    /\ resp' = <<[status |-> 500, contentType |-> "text/plain",
                  body |-> "Internal Server Error"]>>
    /\ HUnchanged

NextH ==
    \/ RejectMethod
    \/ AwaitJson
    \/ RejectJson
    \/ ThrowOnField
    \/ RejectMissing
    \/ ThrowOnLog
    \/ CallImgReverser
    \/ LoadImageThrows
    \/ Next
    \/ Respond
    \/ RespondError

SpecH == InitH /\ [][NextH]_vars

\* ------------------------------------------------------------ properties

\* C1: for every N >= 0 and every stream of draws in [0,1), the sequence
\* unShuffle(createRange(0, N), seed) returns has length N and holds every
\* integer of [0, N) exactly once: no slot is left null and none is written
\* twice; N = 0 gives the empty sequence and N = 1 gives [0].
C1_Bijection ==
    upc = "done" =>
        LET N == Len(array)
            result == loop.shuffledArray
        IN  /\ Len(result) = N
            /\ \A d \in 1..N : result[d] # Null /\ result[d] \in 0..(N - 1)
            /\ \A v \in 0..(N - 1) :
                  Cardinality({d \in 1..N : result[d] = v}) = 1
            /\ (N = 0 => result = <<>>)
            /\ (N = 1 => result = <<0>>)

\* A call with N = 3 has returned the permutation [2, 0, 1].
C1_Witness ==
    /\ upc = "done"
    /\ Len(array) = 3
    /\ loop.shuffledArray = <<2, 0, 1>>

\* The pool without the element at 0-based position pick.
RefRemove(pool, pick) ==
    SubSeq(pool, 1, pick) \o SubSeq(pool, pick + 2, Len(pool))

RECURSIVE RefPermute(_, _, _, _)
\* The reference draw-and-remove procedure, from source index source on and
\* for as long as draws are given: pick = floor(r * remaining length),
\* dest = pool[pick], remove pool[pick], result[dest] = source.
RefPermute(result, pool, source, draws) ==
    IF source >= Len(draws) THEN [result |-> result, pool |-> pool]
    ELSE LET pick == (draws[source + 1] * Len(pool)) \div Den
             dest == pool[pick + 1]
         IN  RefPermute([result EXCEPT ![dest + 1] = source],
                        RefRemove(pool, pick), source + 1, draws)

\* The reference procedure's result and pool for size N after the draws.
RefAfter(N, draws) ==
    RefPermute([d \in 1..N |-> Null], [d \in 1..N |-> d - 1], 0, draws)

\* C8: unShuffle follows the draw-and-remove procedure exactly: a call of
\* size N consumes exactly N draws, one per source index 0..N-1 in increasing
\* order; at draw i the pool holds the N - i indices not yet chosen in
\* increasing order, pick = floor(r * (N - i)) lies in [0, N - i), and
\* result[pool[pick]] = i is set and pool[pick] removed; the returned sequence
\* is the reference procedure's for every sequence of draws.
C8_DrawAndRemove ==
    upc \in {"loop", "done"} =>
        LET N == Len(array)
            pool == loop.indexArray
            result == loop.shuffledArray
            ref == RefAfter(N, SubSeq(stream[seed], 1, i))
        IN  /\ i \in 0..N
            /\ randomGenerator.pos = i
            /\ Len(stream[seed]) >= i
            /\ Len(pool) = N - i
            /\ \A a, b \in 1..Len(pool) : a < b => pool[a] < pool[b]
            /\ {pool[a] : a \in 1..Len(pool)} = {d \in 0..(N - 1) : result[d + 1] = Null}
            /\ \A d \in 1..N : result[d] # Null => result[d] \in 0..(i - 1)
            /\ i < N => \A k \in 0..(Den - 1) :
                           /\ RandomIndex(k, pool) \in 0..(N - i - 1)
                           /\ RandomIndex(k, pool) = (k * (N - i)) \div Den
            /\ result = ref.result
            /\ pool = ref.pool
            /\ (upc = "done" => i = N /\ pool = <<>>)

\* A call with N = 3 has returned [1, 2, 0] after three draws, the first of
\* which picked the last pool position.
C8_Witness ==
    /\ upc = "done"
    /\ Len(array) = 3
    /\ randomGenerator.pos = 3
    /\ stream[seed][1] = Den - 1
    /\ loop.shuffledArray = <<1, 2, 0>>

\* C7: the result of unShuffle(createRange(0, N), seed) is a function of
\* (N, seed) only: a call returns the sequence the first call with the same
\* (N, seed) returned, whatever calls with other sizes happened in between.
C7_Determinism ==
    (/\ upc = "done"
     /\ first # <<>>
     /\ first[1].n = Len(array)
     /\ first[1].seed = seed)
        => loop.shuffledArray = first[1].result

\* The third call returns, with the first call's size 3 and seed, after a
\* call of another size, a permutation other than the identity.
C7_Witness ==
    /\ upc = "done"
    /\ ncalls = 3
    /\ others >= 1
    /\ first # <<>>
    /\ first[1].n = 3
    /\ Len(array) = 3
    /\ first[1].seed = seed
    /\ loop.shuffledArray # <<0, 1, 2>>

\* The squares of all groups, as <<group number, place in the group>>.
Slots ==
    UNION {{<<g, k>> : k \in 1..Len(squareGroups[g].squares)} :
              g \in 1..Len(squareGroups)}

\* C3: for every width, height and side T > 0 the rectangles the
\* partitioning loop builds cover the width x height plane exactly: every
\* pixel lies in exactly one tile, and no tile extends past the image bounds
\* or has a width or height that is not positive.
C3_TilingComplete ==
    (squareSideLength > 0 /\ pc \in {"copy", "returned"}) =>
        /\ Cardinality(Slots) =
              TotalSquares(img.width, img.height, squareSideLength)
        /\ \A p \in Pixels(img.width, img.height) :
              Cardinality({t \in Slots :
                  InSquare(p, squareGroups[t[1]].squares[t[2]])}) = 1
        /\ \A t \in Slots :
              LET sq == squareGroups[t[1]].squares[t[2]]
              IN  /\ sq.width > 0 /\ sq.height > 0
                  /\ sq.x >= 0 /\ sq.y >= 0
                  /\ sq.x + sq.width <= img.width
                  /\ sq.y + sq.height <= img.height

\* A 5 x 5 image is partitioned with side 2 into nine tiles of four sizes.
C3_Witness ==
    /\ pc = "copy"
    /\ squareSideLength = 2
    /\ img.width = 5 /\ img.height = 5
    /\ Len(squareGroups) = 4
    /\ Cardinality(Slots) = 9

\* C4: for every group the partitioner produces (T > 0), getGroup returns
\* cols >= 1 and an integer rows with rows * cols = slices = the group's
\* length: the slice count is always divisible by the column count.
C4_GroupGeometry ==
    (squareSideLength > 0 /\ pc \in {"copy", "returned"}) =>
        \A g \in 1..Len(squareGroups) :
            LET grp == getGroup(squareGroups[g].squares)
            IN  /\ grp.cols >= 1
                /\ grp.rows.den = 1
                /\ grp.rows.num * grp.cols = grp.slices
                /\ grp.slices = Len(squareGroups[g].squares)

\* A group of two rows and two columns, and a group of one column and two
\* rows, are produced for one image.
C4_Witness ==
    /\ pc = "copy"
    /\ squareSideLength > 0
    /\ \E g \in 1..Len(squareGroups) :
          LET grp == getGroup(squareGroups[g].squares)
          IN  grp.cols = 2 /\ grp.rows.num = 2 /\ grp.slices = 4
    /\ \E g \in 1..Len(squareGroups) :
          LET grp == getGroup(squareGroups[g].squares)
          IN  grp.cols = 1 /\ grp.rows.num = 2

\* The source rectangle of the tile at index idx of started group g.
SourceRect(g, idx) ==
    LET squares == squareGroups[g].squares
        sq == squares[idx + 1]
        grp == getGroup(squares)
        slot == deshuffled[g][idx + 1]
    IN  [x |-> SourceX(grp, sq, slot),
         y |-> SourceY(grp, sq, slot),
         width |-> sq.width,
         height |-> sq.height]

\* C10: for every tile at index idx of every group (T > 0), the source
\* rectangle imgReverser computes from slot = deshuffled[idx] is exactly the
\* rectangle of the group's tile at index slot; so it lies inside the image,
\* and distinct tiles of a group read source rectangles that do not overlap.
C10_SourceRectangle ==
    (squareSideLength > 0 /\ pc \in {"copy", "returned"}) =>
        \A g \in 1..Len(deshuffled) :
            LET squares == squareGroups[g].squares
                n == Len(squares)
            IN  /\ \A idx \in 0..(n - 1) :
                      /\ deshuffled[g][idx + 1] \in 0..(n - 1)
                      /\ SourceRect(g, idx) = squares[deshuffled[g][idx + 1] + 1]
                      /\ SourceRect(g, idx).x >= 0
                      /\ SourceRect(g, idx).y >= 0
                      /\ SourceRect(g, idx).x + SourceRect(g, idx).width
                            <= img.width
                      /\ SourceRect(g, idx).y + SourceRect(g, idx).height
                            <= img.height
                /\ \A a, b \in 0..(n - 1) :
                      a # b => \A p \in Pixels(img.width, img.height) :
                                  ~(/\ InSquare(p, SourceRect(g, a))
                                    /\ InSquare(p, SourceRect(g, b)))

\* A started group of two rows whose tiles are not square, with a tile that
\* reads the rectangle of a tile of the other row.
C10_Witness ==
    /\ pc = "copy"
    /\ squareSideLength > 0
    /\ \E g \in 1..Len(deshuffled) :
          LET squares == squareGroups[g].squares
              grp == getGroup(squares)
          IN  /\ grp.rows.num >= 2
              /\ squares[1].width # squares[1].height
              /\ \E idx \in 0..(Len(squares) - 1) :
                    SourceRect(g, idx).y # squares[idx + 1].y

\* C2: for any width, height > 0, side T > 0 and seed, if the image was
\* produced by the forward scramble (per group, the original content of slot
\* d at slot perm[d]), the surface imgReverser returns equals the original
\* image pixel for pixel.
C2_RoundTrip ==
    (pc = "returned" /\ squareSideLength > 0) =>
        /\ png # <<>>
        /\ png[1] = Original(img.width, img.height)

\* imgReverser has returned for an image of several groups that the scramble
\* changed.
C2_Witness ==
    /\ pc = "returned"
    /\ squareSideLength > 0
    /\ Len(squareGroups) >= 2
    /\ img.data # Original(img.width, img.height)
    /\ png # <<>>

\* C9: the final surface does not depend on the order in which the groups and
\* the copies inside them are processed: no two copies write the same
\* destination pixel, every written pixel holds what the sequential loop
\* leaves there, and every interleaving ends in the surface of the sequential
\* loop, with every destination pixel written exactly once.
C9_GroupIndependence ==
    pc \in {"copy", "returned"} =>
        LET sequential == imgReverser(img, squareSideLength, stream[stringSeed])
        IN  /\ \A p \in DOMAIN writes : writes[p] <= 1
            /\ \A p \in DOMAIN canvas :
                  canvas[p] = IF writes[p] = 0 THEN Blank ELSE sequential[p]
            /\ pc = "returned" =>
                  /\ png[1] = sequential
                  /\ squareSideLength > 0 =>
                        \A p \in DOMAIN writes : writes[p] = 1

\* imgReverser has returned for a scrambled image of several groups whose
\* copies were made out of the loops' order.
C9_Witness ==
    /\ pc = "returned"
    /\ reordered
    /\ squareSideLength > 0
    /\ Len(squareGroups) >= 2
    /\ img.data # Original(img.width, img.height)

\* C5: a side length of 0 or below (and an image width or height of 0 or
\* below) is rejected before partitioning begins: imgReverser builds no tile,
\* issues no copy and returns no image for it.
C5_NonPositiveRejected ==
    (squareSideLength <= 0 \/ img.width <= 0 \/ img.height <= 0) =>
        /\ squareGroups = <<>>
        /\ done = {}
        /\ png = <<>>

\* C6: every request that is no POST, every POST whose body is no JSON and
\* every POST whose body is JSON without the imgURL field is answered with
\* status 400 and plain text, imgReverser is not entered for it and no image
\* bytes are returned; a response of image bytes goes only to a POST with a
\* JSON body that carries a locator.
C6_RequestBoundary ==
    /\ (req.method # "POST" \/ ~req.json \/ req.type # "object"
            \/ req.imgURL = "absent") =>
          /\ pc = "off"
          /\ png = <<>>
          /\ hpc = "responded" =>
                /\ resp[1].status = 400
                /\ resp[1].contentType = "text/plain"
    /\ (hpc = "responded" /\ resp[1].contentType = "image/png") =>
          /\ req.method = "POST"
          /\ req.json
          /\ req.type = "object"
          /\ ~Falsy(req.imgURL)
          /\ resp[1].status = 200
          /\ resp[1].body = png[1]

====
